---- MODULE Spec2Model ----
(***************************************************************************)
(* State-machine model of the VS-FM-RADIO real-time audio pipeline:        *)
(*   - LiveVoiceAgent (src/components/LiveVoiceAgent.tsx, lines 133-345):   *)
(*     the streaming voice session, its teardown, the gapless playback      *)
(*     scheduler and the tool-call loop;                                    *)
(*   - App (same file, lines 401-1125): the props that drive the agent and  *)
(*     the track-level retry counter;                                       *)
(*   - AudioService (src/services/audioService.ts): the local deck.         *)
(*                                                                         *)
(* JavaScript is single threaded: every callback runs to its next await.    *)
(* Each action below is one such run.  A React effect instance (one run of  *)
(* the useEffect body at lines 161-332) is numbered 1, 2, ...; the closure  *)
(* variable `mounted` and the position of its startSession are kept per     *)
(* instance, the refs are shared by all instances.                          *)
(***************************************************************************)
EXTENDS Integers, Sequences, FiniteSets, TLC

\* ---------------------------------------------------------------- bounds
MaxInst == 4          \* effect instances (runs of the useEffect body)
MaxTimers == 1        \* pending setTimeout(onDeactivate, 3000) timers
MaxInstSched == 3     \* effect instances in the scheduler specification
MaxTime == 2          \* ticks of an output context's clock
MaxDur == 1           \* duration of a decoded buffer, in ticks
MaxClock == 3         \* latest planned end of a buffer
MaxInstTool == 3      \* effect instances in the tool-call specification
MaxToolMsgs == 2      \* inbound messages that carry tool calls
MaxInstResp == 2      \* effect instances in the tool-response specification
MaxUnhandled == 1     \* runs of onmessage that ended in a throw
MaxBytes == 3         \* byte length of an inbound speech payload
MaxVec == 2           \* samples in a captured block
MaxNear == 5          \* sample values kept next to -1, 0 and +1
SampleGrid == 4       \* sample values per quantisation step
MaxPending == 2       \* play promises not yet settled or handled
MaxNextTimers == 1    \* pending setTimeout(nextTrack, 1000) timers
MaxOver == 3          \* volume requests kept outside 0..PerCent on each side
MaxRetried == 3       \* retries of one track that are told apart
MaxInstUp == 4        \* effect instances in the uplink specification
MaxBlocks == 3        \* capture blocks delivered to one processor

Inst == 1..MaxInst
Modes == {"NIGHT_BRAIN", "SUN_DAY"}

VARIABLES
  \* App state handed to LiveVoiceAgent as props, and the deps of the last
  \* effect run
  isActive, mode, depActive, depMode, apiKey,
  \* React effect bookkeeping
  phase, cur, mounted,
  \* LiveVoiceAgent state and refs (0 stands for null, k for the object
  \* created by effect instance k)
  status, isConnectingRef, sessionRef, streamRef, processorRef,
  inputContextRef, outputContextRef,
  \* position of startSession of each instance
  pc,
  \* the resources created by each instance
  stream, inCtx, outCtx, proc, sess, closeReq,
  \* pending auto-deactivation timers
  timers,
  \* playback scheduler: nextStartTimeRef, audioQueueRef, the clock of each
  \* output context (ctx.currentTime), and the record of the two buffers
  \* scheduled last
  nextStartTimeRef, audioQueueRef, clock, hist,
  \* tool calls: one entry of tasks per run of onmessage that reached the
  \* tool-call loop (its calls, the calls handed to onToolCall so far, the
  \* index of the call awaited and the outcomes so far), and the calls for
  \* which sendToolResponse was issued
  tasks, responded,
  \* the deck: the AudioService object with its audio element, the retry
  \* counter and track index of App, and what happened since the last
  \* play request
  deck,
  \* the last failure text LiveVoiceAgent handed to onAIResponse
  failureNotice,
  \* runs of onmessage that ended in a throw (its promise is rejected and
  \* nobody handles the rejection)
  unhandled,
  \* the codec: the block of samples captured last, the packet made of it
  \* and the samples decoded from that packet
  codec,
  \* the uplink of each instance: whether its session promise has resolved,
  \* the blocks captured so far, the send reactions waiting on the promise
  \* and the blocks passed to sendRealtimeInput, in that order
  uplink

propVars == <<isActive, mode, apiKey>>
depVars  == <<depActive, depMode>>
refVars  == <<sessionRef, streamRef, processorRef, inputContextRef, outputContextRef>>
resVars  == <<stream, inCtx, outCtx, proc, sess, closeReq>>
lifeVars == <<propVars, depVars, phase, cur, mounted, status, isConnectingRef,
              refVars, pc, resVars, timers>>

schedVars == <<nextStartTimeRef, audioQueueRef, clock, hist>>

toolVars == <<tasks, responded>>

vars == <<lifeVars, schedVars, toolVars, deck, failureNotice, unhandled, codec, uplink>>

\* ------------------------------------------------------------- helpers
Max(a, b) == IF a >= b THEN a ELSE b
Min(a, b) == IF a <= b THEN a ELSE b

\* releasing a resource: stop() / disconnect() / close() on the object
Release(st) == IF st = "live" THEN "released" ELSE "released2"

\* a cleanup that releases the object and keeps the ref
KeptRef(ref) == ref

\* `xRef.current = null` at the end of each branch of cleanup
ReleasedRef(ref) == 0

NoHist == [inst |-> 0, prevEnd |-> -1, start |-> 0, end |-> 0,
           between |-> FALSE, after |-> FALSE, said |-> "none"]

\* --------------------------------------------------------------- the deck
\* the playlist App plays from: one network stream and one local file
Playlist == <<"https://a", "blob:b">>
IsBlob(url) == url = "blob:b"                 \* url.startsWith('blob:')

\* AudioService after its constructor (lines 17-25), App's retryCountRef
\* and currentTrackIndex (lines 405, 436; tracks are numbered from 1 here),
\* the setTimeout(nextTrack, 1000) timers with the track index their closure
\* captured, and the history of the last
\* request: req is the kind of source of the last play(url), errs the media
\* error events since, auto the plays the error handler issued since, surf
\* the errors it passed to onError since; fails counts the onError calls in
\* a row and last is what the last callback of App did; retried counts the
\* retries made since a track other than the one before it was started and
\* gaveUpAfter is that count at the moment a track was given up last.
InitDeck ==
  [crossOrigin |-> "anonymous", isCorsRestricted |-> FALSE, src |-> "",
   source |-> FALSE,
   elem |-> "empty", paused |-> TRUE, playEvt |-> FALSE,
   pendingPlays |-> 0, rejecting |-> 0, stale |-> 0,
   retryCountRef |-> 0, currentTrackIndex |-> 1, nextTimers |-> <<>>,
   req |-> "none", errs |-> 0, auto |-> 0, surf |-> 0,
   fails |-> 0, last |-> "none", retried |-> 0, gaveUpAfter |-> -1,
   volume |-> 100, volReq |-> 100, volBy |-> "none"]

\* ------------------------------------------------------------------ Init
Init ==
  /\ isActive = FALSE /\ mode = "NIGHT_BRAIN"
  /\ depActive = FALSE /\ depMode = "NIGHT_BRAIN"
  /\ apiKey \in BOOLEAN
  /\ phase = "idle" /\ cur = 1
  /\ mounted = [k \in Inst |-> FALSE]
  /\ status = "idle" /\ isConnectingRef = FALSE
  /\ sessionRef = 0 /\ streamRef = 0 /\ processorRef = 0
  /\ inputContextRef = 0 /\ outputContextRef = 0
  /\ pc = [k \in Inst |-> "none"]
  /\ stream = [k \in Inst |-> "none"]
  /\ inCtx = [k \in Inst |-> "none"]
  /\ outCtx = [k \in Inst |-> "none"]
  /\ proc = [k \in Inst |-> "none"]
  /\ sess = [k \in Inst |-> "none"]
  /\ closeReq = [k \in Inst |-> 0]
  /\ timers = 0
  /\ nextStartTimeRef = 0 /\ audioQueueRef = {}
  /\ clock = [k \in Inst |-> 0]
  /\ hist = NoHist
  /\ tasks = <<>> /\ responded = {}
  /\ deck = InitDeck
  /\ failureNotice = "none"
  /\ unhandled = 0
  /\ codec = [stage |-> "idle", input |-> <<>>, wire |-> <<>>,
              mimeType |-> "", output |-> <<>>]
  /\ uplink = [k \in Inst |-> [resolved |-> FALSE, captured |-> 0, early |-> 0,
                               reactions |-> <<>>, sent |-> <<>>]]

\* ------------------------------------------------------------- teardown
\* cleanup of effect instance k (lines 164-190).  Every ref is released only
\* when it is not null and is nulled afterwards; the set of scheduled
\* sources is stopped and cleared; nextStartTimeRef is not written.
cleanup(k) ==
  /\ mounted' = [mounted EXCEPT ![k] = FALSE]
  /\ isConnectingRef' = FALSE
  /\ closeReq' = IF sessionRef # 0
                 THEN [closeReq EXCEPT ![sessionRef] = @ + 1] ELSE closeReq
  /\ sessionRef' = IF sessionRef # 0 THEN ReleasedRef(sessionRef) ELSE 0
  /\ stream' = IF streamRef # 0
               THEN [stream EXCEPT ![streamRef] = Release(@)] ELSE stream
  /\ streamRef' = IF streamRef # 0 THEN ReleasedRef(streamRef) ELSE 0
  /\ proc' = IF processorRef # 0
             THEN [proc EXCEPT ![processorRef] = Release(@)] ELSE proc
  /\ processorRef' = IF processorRef # 0 THEN ReleasedRef(processorRef) ELSE 0
  /\ inCtx' = IF inputContextRef # 0
              THEN [inCtx EXCEPT ![inputContextRef] = Release(@)] ELSE inCtx
  /\ inputContextRef' = IF inputContextRef # 0
                        THEN ReleasedRef(inputContextRef) ELSE 0
  /\ outCtx' = IF outputContextRef # 0
               THEN [outCtx EXCEPT ![outputContextRef] = Release(@)] ELSE outCtx
  /\ outputContextRef' = IF outputContextRef # 0
                         THEN ReleasedRef(outputContextRef) ELSE 0
  /\ audioQueueRef' = {}
  /\ status' = "idle"
  /\ UNCHANGED <<nextStartTimeRef, clock, hist, toolVars, deck, failureNotice, unhandled, codec, uplink>>

\* ------------------------------------------------------------ App events
\* the mic button: setIsVoiceActive(!isVoiceActive) (line 1057)
UserToggleVoice(lim) ==
  /\ phase = "idle" /\ cur < lim
  /\ isActive' = ~isActive
  /\ UNCHANGED <<mode, apiKey, depVars, phase, cur, mounted, status,
                 isConnectingRef, refVars, pc, resVars, timers, schedVars, toolVars, deck, failureNotice, unhandled, codec, uplink>>

\* the theme button: setMode(isDay ? NIGHT_BRAIN : SUN_DAY) (line 942)
UserToggleMode(lim) ==
  /\ phase = "idle" /\ cur < lim
  /\ mode' = IF mode = "SUN_DAY" THEN "NIGHT_BRAIN" ELSE "SUN_DAY"
  /\ UNCHANGED <<isActive, apiKey, depVars, phase, cur, mounted, status,
                 isConnectingRef, refVars, pc, resVars, timers, schedVars, toolVars, deck, failureNotice, unhandled, codec, uplink>>

\* ---------------------------------------------------------- the effect
\* React reruns the effect when [isActive, mode] differ from the deps of the
\* last run (line 332): first the cleanup returned by the previous run
\* (line 331), then the body (lines 325-329).  Nothing else runs in between.
EffectCleanup(lim) ==
  /\ phase = "idle" /\ cur < lim
  /\ <<isActive, mode>> # <<depActive, depMode>>
  /\ cleanup(cur)
  /\ phase' = "body"
  /\ UNCHANGED <<propVars, depVars, cur, pc, sess, timers>>

AnyCredential(key) == TRUE

\* line 193: process.env.API_KEY is set
HasCredential(key) == key

TimerNotArmed(n) == n

\* setTimeout(onDeactivate, 3000) (lines 305, 318): one more pending timer
ArmTimer(n) == n + 1

\* the synchronous part of startSession (lines 192-208), up to the await of
\* getUserMedia
startSession(k) ==
  /\ mounted' = [mounted EXCEPT ![k] = TRUE]
  /\ IF ~HasCredential(apiKey)
     THEN /\ failureNotice' = "Error: No API Key"
          /\ isActive' = FALSE            \* onDeactivate()
          /\ UNCHANGED <<isConnectingRef, status, pc>>
     ELSE IF isConnectingRef
     THEN UNCHANGED <<isActive, isConnectingRef, status, pc, failureNotice>>
     ELSE /\ isConnectingRef' = TRUE
          /\ status' = "connecting"
          /\ pc' = [pc EXCEPT ![k] = "mic"]
          /\ UNCHANGED <<isActive, failureNotice>>
  /\ UNCHANGED <<refVars, resVars, schedVars, toolVars, deck, unhandled, codec, uplink>>

EffectBody ==
  /\ phase = "body"
  /\ phase' = "idle"
  /\ cur' = cur + 1
  /\ depActive' = isActive /\ depMode' = mode
  /\ IF isActive
     THEN startSession(cur + 1)
     ELSE cleanup(cur + 1) /\ UNCHANGED <<isActive, pc, sess>>
  /\ UNCHANGED <<mode, apiKey, timers>>

\* ai.live.connect (lines 220-311) and the finally block (line 321)
connect(k) ==
  /\ sess' = [sess EXCEPT ![k] = "handshake"]
  /\ sessionRef' = k
  /\ isConnectingRef' = FALSE
  /\ pc' = [pc EXCEPT ![k] = "done"]

\* getUserMedia resolves (lines 208-218): the stream and both contexts are
\* stored, whatever `mounted` is; a suspended context is resumed first
MicResolved(k, suspended) ==
  /\ phase = "idle" /\ pc[k] = "mic"
  /\ streamRef' = k /\ stream' = [stream EXCEPT ![k] = "live"]
  /\ inputContextRef' = k /\ inCtx' = [inCtx EXCEPT ![k] = "live"]
  /\ outputContextRef' = k /\ outCtx' = [outCtx EXCEPT ![k] = "live"]
  /\ IF suspended
     THEN /\ pc' = [pc EXCEPT ![k] = "resume"]
          /\ UNCHANGED <<sess, sessionRef, isConnectingRef>>
     ELSE connect(k)
  /\ UNCHANGED <<propVars, depVars, phase, cur, mounted, status, processorRef,
                 proc, closeReq, timers, schedVars, toolVars, deck, failureNotice, unhandled, codec, uplink>>

\* inputCtx.resume() / outputCtx.resume() resolve (lines 217-218)
ResumeResolved(k) ==
  /\ phase = "idle" /\ pc[k] = "resume"
  /\ connect(k)
  /\ UNCHANGED <<propVars, depVars, phase, cur, mounted, status, streamRef,
                 processorRef, inputContextRef, outputContextRef, stream, inCtx,
                 outCtx, proc, closeReq, timers, schedVars, toolVars, deck, failureNotice, unhandled, codec, uplink>>

CatchStatusKept(m, st) == st

\* lines 315-316: if (mounted) setStatus('error')
CatchStatus(m, st) == IF m THEN "error" ELSE st

\* getUserMedia or resume rejects: catch and finally (lines 313-322)
SetupFailed(k) ==
  /\ phase = "idle" /\ pc[k] \in {"mic", "resume"}
  /\ mounted[k] => timers < MaxTimers
  /\ status' = CatchStatus(mounted[k], status)
  /\ IF mounted[k]
     THEN /\ failureNotice' = "Network Error"
          /\ timers' = ArmTimer(timers)
     ELSE UNCHANGED <<timers, failureNotice>>
  /\ isConnectingRef' = FALSE
  /\ pc' = [pc EXCEPT ![k] = "done"]
  /\ UNCHANGED <<propVars, depVars, phase, cur, mounted, refVars, resVars,
                 schedVars, toolVars, deck, unhandled, codec, uplink>>

\* --------------------------------------------------- session callbacks
\* an onopen that does not look at `mounted`
OpenStatusAlways(m, st) == "connected"

\* lines 233-234: if (!mounted) return; setStatus('connected')
OpenStatus(m, st) == IF m THEN "connected" ELSE st

\* onopen (lines 232-251)
RemoteOpen(k) ==
  /\ phase = "idle" /\ sess[k] = "handshake"
  /\ sess' = [sess EXCEPT ![k] = "open"]
  /\ status' = OpenStatus(mounted[k], status)
  /\ IF mounted[k]
     THEN /\ processorRef' = k
          /\ proc' = [proc EXCEPT ![k] = "live"]
     ELSE UNCHANGED <<processorRef, proc>>
  /\ UNCHANGED <<propVars, depVars, phase, cur, mounted, isConnectingRef,
                 sessionRef, streamRef, inputContextRef, outputContextRef, pc,
                 stream, inCtx, outCtx, closeReq, timers, schedVars, toolVars, deck, failureNotice, unhandled, codec, uplink>>

\* onerror (lines 301-307)
RemoteError(k) ==
  /\ phase = "idle" /\ sess[k] \in {"handshake", "open"}
  /\ mounted[k] => timers < MaxTimers
  /\ sess' = [sess EXCEPT ![k] = "errored"]
  /\ IF mounted[k]
     THEN /\ status' = "error" /\ failureNotice' = "Connection Error"
          /\ timers' = ArmTimer(timers)
     ELSE UNCHANGED <<status, timers, failureNotice>>
  /\ UNCHANGED <<propVars, depVars, phase, cur, mounted, isConnectingRef,
                 refVars, pc, stream, inCtx, outCtx, proc, closeReq, schedVars,
                 toolVars, deck, unhandled, codec, uplink>>

\* onclose (lines 298-300), shared by a close of the remote side and by the
\* close() that cleanup asked for
onclose(k) ==
  /\ sess' = [sess EXCEPT ![k] = "closed"]
  /\ IF mounted[k]
     THEN status' = "idle" /\ isActive' = FALSE
     ELSE UNCHANGED <<status, isActive>>
  /\ UNCHANGED <<mode, apiKey, depVars, phase, cur, mounted, isConnectingRef,
                 refVars, pc, stream, inCtx, outCtx, proc, closeReq, timers,
                 schedVars, toolVars, deck, failureNotice, unhandled, codec, uplink>>

RemoteClose(k) ==
  /\ phase = "idle" /\ sess[k] \in {"handshake", "open", "errored"}
  /\ onclose(k)

\* sessionRef.current.then(s => s.close()) (line 168) runs once the session
\* promise has resolved
SessionClose(k) ==
  /\ phase = "idle" /\ closeReq[k] > 0 /\ sess[k] = "open"
  /\ onclose(k)

\* setTimeout(onDeactivate, 3000) fires (lines 305, 318)
TimerFire ==
  /\ phase = "idle" /\ timers > 0
  /\ timers' = timers - 1
  /\ isActive' = FALSE
  /\ UNCHANGED <<mode, apiKey, depVars, phase, cur, mounted, status,
                 isConnectingRef, refVars, pc, resVars, schedVars, toolVars, deck, failureNotice, unhandled, codec, uplink>>

NextLife ==
  \/ UserToggleVoice(MaxInst)
  \/ UserToggleMode(MaxInst)
  \/ EffectCleanup(MaxInst)
  \/ EffectBody
  \/ \E k \in Inst, s \in BOOLEAN : MicResolved(k, s)
  \/ \E k \in Inst : ResumeResolved(k)
  \/ \E k \in Inst : SetupFailed(k)
  \/ \E k \in Inst : RemoteOpen(k)
  \/ \E k \in Inst : RemoteError(k)
  \/ \E k \in Inst : RemoteClose(k)
  \/ \E k \in Inst : SessionClose(k)
  \/ TimerFire

SpecLife == Init /\ [][NextLife]_vars

\* ------------------------------------------------- playback scheduler
\* a scheduler that starts every buffer at the current clock
PlannedStartAtClock(next, t) == t

\* line 265: nextStartTimeRef.current = Math.max(nextStartTimeRef.current,
\* ctx.currentTime)
PlannedStart(next, t) == Max(next, t)

\* a scheduler that adds the duration to the accumulator it found
EnqueueAddsDuration(q, next, ctx, t, dur) ==
  LET st == PlannedStart(next, t) IN
  [queue |-> q \cup {[ctx |-> ctx, start |-> st, end |-> st + dur]},
   next |-> next + dur, start |-> st]

\* lines 265-272: the buffer is started at the planned start and the
\* accumulator moves to its end.  decodeAudioData (lines 69-80) holds no
\* await of its own, so its continuation runs before any other callback.
Enqueue(q, next, ctx, t, dur) ==
  LET st == PlannedStart(next, t) IN
  [queue |-> q \cup {[ctx |-> ctx, start |-> st, end |-> st + dur]},
   next |-> st + dur, start |-> st]

\* a flush that resets the accumulator and leaves the sources alone
FlushKeepsQueue(q, next) == [queue |-> q, next |-> 0]

\* lines 277-281: every source is stopped, the set is cleared and the
\* accumulator is reset
Flush(q, next) == [queue |-> {}, next |-> 0]

\* ----------------------------------------------------------- tool calls
SeekCall == [name |-> "seek_audio", mode |-> "NIGHT_BRAIN"]
ModeCall == [name |-> "change_mode", mode |-> "SUN_DAY"]

\* the functionCalls of the inbound messages the model draws from
ToolMsgs == {<<SeekCall>>, <<SeekCall, ModeCall, SeekCall>>}

\* handleToolCall (lines 833-855) up to its return: change_mode calls
\* setMode(args.mode); the other tools act on the deck, not on the session
HandlerMode(call, m) == IF call.name = "change_mode" THEN call.mode ELSE m

\* a loop that a failing handler leaves
NextIndexAbortOnFail(idx, outcome, n) == IF outcome = "fail" THEN n + 1 ELSE idx + 1

\* the for loop of lines 285-295: the catch block is inside the loop, so the
\* next call is taken whatever the outcome of the one before
NextIndex(idx, outcome, n) == idx + 1

Awaiting(t) == t.idx <= Len(t.calls)

\* the playback status one run of onmessage hands to onAIResponse last
\* (lines 274, 281); a run with neither branch leaves the caller with the
\* one it had
Said(doAudio, interrupted, before) ==
  IF interrupted THEN "Listening..."
  ELSE IF doAudio THEN "Speaking..." ELSE before

\* onmessage (lines 252-297): the speech fragment, then the interruption
\* signal, then the first tool call, whose handler is awaited.  audio = 0
\* stands for a message with no inline data, calls = <<>> for one with no
\* toolCall.
OnMessage(k, audio, interrupted, calls) ==
  /\ phase = "idle" /\ sess[k] = "open"
  /\ mounted[k]                                      \* line 253
  /\ audio > 0 \/ interrupted \/ calls # <<>>
  /\ LET doAudio == audio > 0 /\ outputContextRef # 0
         t  == clock[outputContextRef]
         e  == IF doAudio
               THEN Enqueue(audioQueueRef, nextStartTimeRef,
                            outputContextRef, t, audio)
               ELSE [queue |-> audioQueueRef, next |-> nextStartTimeRef,
                     start |-> 0]
         h1 == IF doAudio
               THEN [inst |-> k,
                     prevEnd |-> IF hist.inst = k THEN hist.end ELSE -1,
                     start |-> e.start, end |-> e.next,
                     between |-> hist.inst = k /\ hist.after,
                     after |-> FALSE, said |-> "none"]
               ELSE hist
         f  == IF interrupted THEN Flush(e.queue, e.next)
               ELSE [queue |-> e.queue, next |-> e.next]
     IN /\ doAudio => e.next <= MaxClock
        /\ audioQueueRef' = f.queue
        /\ nextStartTimeRef' = f.next
        /\ hist' = [(IF interrupted THEN [h1 EXCEPT !.after = TRUE] ELSE h1)
                      EXCEPT !.said = Said(doAudio, interrupted, hist.said)]
  /\ IF calls # <<>>
     THEN /\ Len(tasks) < MaxToolMsgs
          /\ tasks' = Append(tasks, [inst |-> k, calls |-> calls, idx |-> 1,
                                     sent |-> <<calls[1]>>, res |-> <<>>,
                                     out |-> <<>>])
          /\ mode' = HandlerMode(calls[1], mode)
     ELSE UNCHANGED <<tasks, mode>>
  /\ UNCHANGED <<isActive, apiKey, depVars, phase, cur, mounted, status,
                 isConnectingRef, refVars, pc, resVars, timers, clock,
                 responded, deck, failureNotice, unhandled, codec, uplink>>

\* what handleToolCall returns for a call (lines 834, 842)
HandlerResult(call) ==
  IF call.name = "change_mode" THEN "Mode changed" ELSE "Seeked"

ResultAsIs(r) == r

\* line 290: result || "done"
ResultOrDone(r) == IF r = "" THEN "done" ELSE r

\* the functionResponses object of line 290 for the call at position i of
\* its message (the position stands for fc.id); outcome "empty" is a handler
\* that resolves with an empty result
FunctionResponse(i, call, outcome) ==
  [id |-> i, name |-> call.name,
   result |-> ResultOrDone(IF outcome = "empty" THEN ""
                           ELSE HandlerResult(call))]

\* the promise returned by onToolCall settles (line 288): on success the
\* response is sent through the session promise (lines 289-291), on failure
\* the error is logged (lines 292-294); then the loop takes the next call.
\* The responses sent for a message are kept in `out`.
HandlerSettled(m, outcome) ==
  /\ phase = "idle" /\ m \in 1..Len(tasks) /\ Awaiting(tasks[m])
  /\ LET t == tasks[m]
         i == NextIndex(t.idx, outcome, Len(t.calls))
     IN /\ responded' = IF outcome # "fail" THEN responded \cup {<<m, t.idx>>}
                        ELSE responded
        /\ tasks' = [tasks EXCEPT ![m] =
                       [t EXCEPT !.idx = i,
                                 !.res = Append(t.res, outcome),
                                 !.out = IF outcome # "fail"
                                         THEN Append(t.out,
                                                FunctionResponse(t.idx,
                                                  t.calls[t.idx], outcome))
                                         ELSE t.out,
                                 !.sent = IF i <= Len(t.calls)
                                          THEN Append(t.sent, t.calls[i])
                                          ELSE t.sent]]
        /\ mode' = IF i <= Len(t.calls) THEN HandlerMode(t.calls[i], mode)
                   ELSE mode
  /\ UNCHANGED <<isActive, apiKey, depVars, phase, cur, mounted, status,
                 isConnectingRef, refVars, pc, resVars, timers, schedVars, deck, failureNotice, unhandled, codec, uplink>>

\* source.onended (line 269): the source leaves the set once its context has
\* played it to the end
OnEnded(b) ==
  /\ phase = "idle" /\ b \in audioQueueRef
  /\ outCtx[b.ctx] = "live" /\ clock[b.ctx] >= b.end
  /\ audioQueueRef' = audioQueueRef \ {b}
  /\ UNCHANGED <<lifeVars, nextStartTimeRef, clock, hist, toolVars, deck, failureNotice, unhandled, codec, uplink>>

\* the clocks of the open output contexts advance together
Tick ==
  /\ phase = "idle"
  /\ \E k \in Inst : outCtx[k] = "live"
  /\ \A k \in Inst : outCtx[k] = "live" => clock[k] < MaxTime
  /\ clock' = [k \in Inst |-> IF outCtx[k] = "live" THEN clock[k] + 1
                              ELSE clock[k]]
  /\ UNCHANGED <<lifeVars, nextStartTimeRef, audioQueueRef, hist, toolVars, deck, failureNotice, unhandled, codec, uplink>>

NextSched ==
  \/ UserToggleVoice(MaxInstSched)
  \/ UserToggleMode(MaxInstSched)
  \/ EffectCleanup(MaxInstSched)
  \/ EffectBody
  \/ \E k \in Inst : MicResolved(k, FALSE)
  \/ \E k \in Inst : RemoteOpen(k)
  \/ \E k \in Inst : SessionClose(k)
  \/ \E k \in Inst, d \in 0..MaxDur, i \in BOOLEAN : OnMessage(k, d, i, <<>>)
  \/ \E b \in audioQueueRef : OnEnded(b)
  \/ Tick

SpecSched == Init /\ [][NextSched]_vars

NextTool ==
  \/ UserToggleVoice(MaxInstTool)
  \/ EffectCleanup(MaxInstTool)
  \/ EffectBody
  \/ \E k \in Inst : MicResolved(k, FALSE)
  \/ \E k \in Inst : RemoteOpen(k)
  \/ \E k \in Inst : SessionClose(k)
  \/ \E k \in Inst, c \in ToolMsgs : OnMessage(k, 0, FALSE, c)
  \/ \E m \in 1..MaxToolMsgs, o \in {"ok", "fail"} : HandlerSettled(m, o)

SpecTool == Init /\ [][NextTool]_vars

\* ================================================================ claims

\* ---------------------------------------------------------------- C1
\* C1 as stated: within one session lifetime every buffer starts at or
\* after the planned end of the buffer scheduled before it.
C1_StartNotBeforePreviousEnd ==
  hist.prevEnd # -1 => hist.start >= hist.prevEnd

\* C1 amended: within one session lifetime every buffer starts at or after
\* the planned end of the buffer scheduled before it unless an interruption
\* was handled between the two; and no two buffers of the active set overlap.
C1_NoOverlap ==
  /\ (hist.prevEnd # -1 /\ ~hist.between) => hist.start >= hist.prevEnd
  /\ \A a, b \in audioQueueRef : a # b => a.end <= b.start \/ b.end <= a.start

\* two buffers scheduled one after the other in one session, none flushed
C1_Witness ==
  /\ hist.prevEnd # -1 /\ ~hist.between
  /\ Cardinality(audioQueueRef) >= 2

\* ---------------------------------------------------------------- C2
InFlight == {k \in Inst : pc[k] \in {"mic", "resume"}}
LiveSessions == {k \in Inst : sess[k] \in {"handshake", "open"}}

\* C2: an activation requested while an earlier one is still connecting is
\* ignored: at most one startSession is in flight and at most one remote
\* session is opened and live.
C2_SingleActivation ==
  /\ Cardinality(InFlight) <= 1
  /\ Cardinality(LiveSessions) <= 1

\* ---------------------------------------------------------------- C3
\* the agent is inactive and no callback is pending
Quiescent ==
  /\ ~isActive /\ phase = "idle"
  /\ <<isActive, mode>> = <<depActive, depMode>>
  /\ InFlight = {}
  /\ timers = 0
  /\ \A k \in Inst : sess[k] # "handshake"
  /\ \A k \in Inst : ~(closeReq[k] > 0 /\ sess[k] = "open")
  /\ \A m \in 1..Len(tasks) : ~Awaiting(tasks[m])

NothingHeld ==
  /\ \A k \in Inst : /\ stream[k] # "live" /\ proc[k] # "live"
                     /\ inCtx[k] # "live" /\ outCtx[k] # "live"
                     /\ sess[k] \notin {"handshake", "open"}
  /\ audioQueueRef = {}

\* C3: once the agent is inactive and all pending callbacks have run, no
\* capture stream, processor, audio context, remote session or scheduled
\* buffer is still held.
C3_NothingHeldWhenInactive == Quiescent => NothingHeld

\* ---------------------------------------------------------------- C4
NoDoubleRelease ==
  \A k \in Inst : /\ closeReq[k] <= 1
                  /\ stream[k] # "released2" /\ proc[k] # "released2"
                  /\ inCtx[k] # "released2" /\ outCtx[k] # "released2"

\* C4: cleanup called twice in a row (the cleanup of the previous effect run,
\* then the cleanup the new run calls when the agent is inactive) releases
\* every resource at most once, and the second call changes nothing but the
\* effect bookkeeping.
C4_CleanupIdempotent ==
  [][/\ (phase = "body" /\ ~isActive) =>
          UNCHANGED <<status, isConnectingRef, refVars, resVars, schedVars,
                      pc, timers, toolVars, propVars, deck>>
     /\ NoDoubleRelease']_vars

\* the second cleanup is about to run after a first one that released a
\* stream, both contexts and a session
C4_Witness ==
  /\ phase = "body" /\ ~isActive
  /\ \E k \in Inst : /\ stream[k] = "released" /\ closeReq[k] = 1
                     /\ inCtx[k] = "released" /\ outCtx[k] = "released"

\* ---------------------------------------------------------------- C5
\* C5: the calls of one message are handed to onToolCall in the order of the
\* message, every settled call, failed or not, is followed by the next one,
\* and every call whose handler succeeded has its response sent.
C5_InOrderDespiteFailure ==
  \A m \in 1..Len(tasks) :
    LET t == tasks[m]
        n == Len(t.calls)
        d == IF t.idx <= n THEN t.idx ELSE n
    IN /\ t.sent = SubSeq(t.calls, 1, d)
       /\ Len(t.res) = t.idx - 1
       /\ \A i \in 1..Len(t.res) : t.res[i] = "ok" => <<m, i>> \in responded

\* a message [A, B, C] whose B failed and whose C was dispatched and answered
C5_Witness ==
  \E m \in 1..Len(tasks) :
    /\ Len(tasks[m].calls) = 3
    /\ tasks[m].res = <<"ok", "fail", "ok">>
    /\ Len(tasks[m].sent) = 3
    /\ <<m, 3>> \in responded

\* ---------------------------------------------------------------- C6
\* C6: at most one tool handler invocation is in flight at any time.
C6_OneHandlerInFlight ==
  Cardinality({m \in 1..Len(tasks) : Awaiting(tasks[m])}) <= 1

\* ---------------------------------------------------------------- C7
Placement == PlannedStart(nextStartTimeRef, clock[outputContextRef])

\* C7: the flush of an interruption is a no-op on an empty active set (the
\* next enqueue is placed where it would have been placed); on a non-empty
\* set it removes every buffer and resets the accumulator to 0.
C7_FlushOnEmptyIsNoOp ==
  [][(\E k \in Inst : OnMessage(k, 0, TRUE, <<>>)) =>
       IF audioQueueRef = {}
       THEN Placement' = Placement
       ELSE audioQueueRef' = {} /\ nextStartTimeRef' = 0]_vars


\* ------------------------------------------------- the deck: AudioService
\* The audio element is kept as: elem, the state of its resource ("empty",
\* "loading", "ready", "failed"); paused; playEvt, a queued 'play' event;
\* pendingPlays, the play promises the element still holds; rejecting, the
\* play promises rejected with NotSupportedError whose catch handler has not
\* run yet; stale, those among them that were rejected by a media error,
\* which the error handler has dealt with itself.

\* the element's load algorithm, run by load() and by an assignment to src:
\* queued events are dropped, the element is paused and the promises it
\* holds are rejected with AbortError, which safePlay ignores
ElemLoad(d) ==
  [d EXCEPT !.elem = "loading", !.paused = TRUE, !.playEvt = FALSE,
            !.pendingPlays = 0]

\* audioElement.play(): refused by the autoplay policy (NotAllowedError,
\* which safePlay only logs), rejected at once on a failed source, or the
\* element leaves the paused state, queues 'play' and holds the promise
\* until playback starts
ElemPlay(d, allowed) ==
  IF ~allowed THEN d
  ELSE IF d.elem = "failed" THEN [d EXCEPT !.rejecting = @ + 1]
  ELSE [d EXCEPT !.paused = FALSE,
                 !.playEvt = d.playEvt \/ d.paused,
                 !.pendingPlays = IF d.elem = "ready" THEN @ ELSE @ + 1]

\* audioElement.pause()
ElemPause(d) == [d EXCEPT !.paused = TRUE, !.pendingPlays = 0]

\* init(): connect the element to the analyser unless restricted; a throw of
\* createMediaElementSource sets the restricted flag
init(d, throws) ==
  IF ~d.source /\ ~d.isCorsRestricted
  THEN IF throws THEN [d EXCEPT !.isCorsRestricted = TRUE]
                 ELSE [d EXCEPT !.source = TRUE]
  ELSE d

safePlay(d, allowed) == ElemPlay(d, allowed)

PlayFlagCleared(url, flag) == FALSE

\* the restricted flag after play(url) chose the cross-origin policy
PlayFlag(url, flag) == IF IsBlob(url) THEN flag ELSE FALSE

\* play(url): policy by kind of URL, init(), reload if the source differs,
\* safePlay(); the request starts a new history
play(d, url, throws, allowed) ==
  LET d1 == [d EXCEPT !.crossOrigin =
                         IF IsBlob(url) THEN "null" ELSE "anonymous",
                      !.isCorsRestricted = PlayFlag(url, @),
                      !.req = IF IsBlob(url) THEN "blob" ELSE "net",
                      !.errs = 0, !.auto = 0, !.surf = 0]
      d2 == init(d1, throws)
      d3 == IF d2.src # url THEN ElemLoad([d2 EXCEPT !.src = url]) ELSE d2
  IN  safePlay(d3, allowed)

togglePlay(d, throws, allowed) ==
  IF d.paused THEN safePlay(init(d, throws), allowed) ELSE ElemPause(d)

\* ----------------------------------------------------------- the deck: App
ShouldRetryThrice(count) == count <= 2

\* the retry test of App's onError callback
ShouldRetry(count) == count < 2

playTrack(d, i, throws, allowed) == play(d, Playlist[i], throws, allowed)

\* App's onPlay callback
onPlay(d) == [d EXCEPT !.retryCountRef = 0, !.fails = 0, !.last = "play"]

\* App's onError callback: retry the current track, or give the track up
\* and arm the timer that moves to the next one
onError(d, throws, allowed) ==
  LET n == IF d.last = "skip" THEN 1 ELSE d.fails + 1 IN
  IF ShouldRetry(d.retryCountRef)
  THEN playTrack([d EXCEPT !.retryCountRef = @ + 1, !.fails = n,
                           !.last = "retry",
                           !.retried = Min(@ + 1, MaxRetried)],
                 d.currentTrackIndex, throws, allowed)
  ELSE [d EXCEPT !.retryCountRef = 0, !.fails = n, !.last = "skip",
                 !.gaveUpAfter = d.retried,
                 !.nextTimers = Append(@, d.currentTrackIndex)]

\* nextTrack() of the closure that saw track index i, with the
\* setTimeout(playTrack, 0) it arms
nextTrack(d, i, throws, allowed) ==
  LET nextIdx == (i % Len(Playlist)) + 1 IN
  playTrack([d EXCEPT !.currentTrackIndex = nextIdx,
                      !.retried = IF nextIdx # d.currentTrackIndex THEN 0 ELSE @],
            nextIdx, throws, allowed)

RecoverAlways(source, policy) == source # ""

\* the recovery test of audioElement.onerror
ShouldRecover(source, policy) == source # "" /\ policy = "anonymous"

\* audioElement.onerror: one reload without CORS, or the error is passed on
onerror(d, throws, allowed) ==
  IF ShouldRecover(d.src, d.crossOrigin)
  THEN safePlay(ElemLoad([d EXCEPT !.crossOrigin = "null",
                                   !.isCorsRestricted = TRUE,
                                   !.auto = @ + 1]), allowed)
  ELSE onError([d EXCEPT !.surf = @ + 1], throws, allowed)

\* promises and timers the deck may still add to
Room(d) ==
  /\ d.pendingPlays + d.rejecting < MaxPending
  /\ Len(d.nextTimers) < MaxNextTimers

DeckStep(d) ==
  /\ phase = "idle"
  /\ deck' = d
  /\ UNCHANGED <<lifeVars, schedVars, toolVars, failureNotice, unhandled, codec, uplink>>

\* a click on a track of the list
UserSelectTrack(i, throws, allowed) ==
  /\ Room(deck)
  /\ DeckStep(playTrack([deck EXCEPT !.currentTrackIndex = i,
                                     !.retried = IF i # deck.currentTrackIndex
                                                 THEN 0 ELSE @],
                        i, throws, allowed))

handleNextBtn(throws, allowed) ==
  /\ Room(deck)
  /\ DeckStep(nextTrack(deck, deck.currentTrackIndex, throws, allowed))

\* the play button
UserTogglePlay(throws, allowed) ==
  /\ Room(deck)
  /\ DeckStep(togglePlay(deck, throws, allowed))

\* the timer armed by onError fires
NextTrackTimer(throws, allowed) ==
  /\ deck.nextTimers # <<>>
  /\ DeckStep(nextTrack([deck EXCEPT !.nextTimers = Tail(@)],
                        Head(deck.nextTimers), throws, allowed))

\* the queued 'play' event is delivered
ElemPlayEvent ==
  /\ deck.playEvt
  /\ DeckStep(onPlay([deck EXCEPT !.playEvt = FALSE]))

\* the resource becomes playable; a playing element resolves its promises
MediaLoaded ==
  /\ deck.elem = "loading"
  /\ DeckStep([deck EXCEPT !.elem = "ready",
                           !.pendingPlays = IF deck.paused THEN @ ELSE 0])

\* the resource fails: the promises the element holds are rejected with
\* NotSupportedError after the error event has been delivered
MediaError(throws, allowed) ==
  /\ deck.elem \in {"loading", "ready"}
  /\ Room(deck)
  /\ DeckStep(onerror([deck EXCEPT !.elem = "failed",
                                   !.errs = @ + 1,
                                   !.rejecting = @ + deck.pendingPlays,
                                   !.stale = @ + deck.pendingPlays,
                                   !.pendingPlays = 0],
                      throws, allowed))

\* playback reaches the end of the track: onEnded is nextTrack
MediaEnded(throws, allowed) ==
  /\ deck.elem = "ready" /\ ~deck.paused
  /\ Room(deck)
  /\ DeckStep(nextTrack(deck, deck.currentTrackIndex, throws, allowed))

\* the catch handler of safePlay runs for a NotSupportedError rejection;
\* the handlers run in the order of the rejections, and a play() refused at
\* once by the error handler's own retry was rejected before the promises
\* the failed load held
PlayCatch(throws, allowed) ==
  /\ deck.rejecting > 0
  /\ Len(deck.nextTimers) < MaxNextTimers
  /\ DeckStep(onError([deck EXCEPT !.rejecting = @ - 1,
                                   !.stale = IF deck.rejecting > deck.stale
                                             THEN @ ELSE @ - 1],
                      throws, allowed))

NextDeck ==
  \/ \E i \in 1..Len(Playlist), t, a \in BOOLEAN : UserSelectTrack(i, t, a)
  \/ \E t, a \in BOOLEAN : handleNextBtn(t, a)
  \/ \E t, a \in BOOLEAN : UserTogglePlay(t, a)
  \/ \E t, a \in BOOLEAN : NextTrackTimer(t, a)
  \/ ElemPlayEvent
  \/ MediaLoaded
  \/ \E t, a \in BOOLEAN : MediaError(t, a)
  \/ \E t, a \in BOOLEAN : MediaEnded(t, a)
  \/ \E t, a \in BOOLEAN : PlayCatch(t, a)

SpecDeck == Init /\ [][NextDeck]_vars

\* ------------------------------------------ the deck on the event loop
\* handleToolCall, control_playback with action 'pause' (line 837):
\* audioService.togglePlay()
ToolPause(throws, allowed) ==
  /\ Room(deck)
  /\ DeckStep(togglePlay(deck, throws, allowed))

\* no rejected play promise waits for its catch handler: the handlers are
\* microtasks, which run before the next event, timer or click is taken
Drained == deck.rejecting = 0

\* the 'play' event queued by play() has been delivered: the events of the
\* element are delivered in the order they were queued
Delivered == ~deck.playEvt

\* the deck with the order the event loop imposes
NextDeckLoop ==
  \/ Drained /\ \E i \in 1..Len(Playlist), t, a \in BOOLEAN :
                   UserSelectTrack(i, t, a)
  \/ Drained /\ \E t, a \in BOOLEAN : handleNextBtn(t, a)
  \/ Drained /\ \E t, a \in BOOLEAN : UserTogglePlay(t, a)
  \/ Drained /\ \E t, a \in BOOLEAN : ToolPause(t, a)
  \/ Drained /\ \E t, a \in BOOLEAN : NextTrackTimer(t, a)
  \/ Drained /\ ElemPlayEvent
  \/ Drained /\ Delivered /\ MediaLoaded
  \/ Drained /\ Delivered /\ \E t, a \in BOOLEAN : MediaError(t, a)
  \/ Drained /\ Delivered /\ \E t, a \in BOOLEAN : MediaEnded(t, a)
  \/ \E t, a \in BOOLEAN : PlayCatch(t, a)

SpecDeckLoop == Init /\ [][NextDeckLoop]_vars


\* ------------------------------------------------------------ the volume
\* Volumes are counted in hundredths: the element's volume 1 is PerCent.
PerCent == 100

VolumeRequests == (-MaxOver)..(PerCent + MaxOver)

setVolumeUnclamped(d, val) == [d EXCEPT !.volume = val]

\* AudioService.setVolume
setVolume(d, val) == [d EXCEPT !.volume = Max(0, Min(PerCent, val))]

\* the volume slider: handleVolume passes the value of the input
handleVolume(v) ==
  /\ deck' = [setVolume(deck, v) EXCEPT !.volReq = v, !.volBy = "slider"]
  /\ UNCHANGED <<lifeVars, schedVars, toolVars, failureNotice, unhandled, codec, uplink>>

\* the set_volume tool of handleToolCall passes level / 100, which is level
\* hundredths
ToolSetVolume(level) ==
  /\ deck' = [setVolume(deck, level) EXCEPT !.volReq = level,
                                            !.volBy = "tool"]
  /\ UNCHANGED <<lifeVars, schedVars, toolVars, failureNotice, unhandled, codec, uplink>>

\* the vertical swipe of handleTouchEnd: a tenth up or down, clamped by the
\* handler before it is passed on
VolumeSwipe(up) ==
  LET volChange == IF up THEN 10 ELSE -10
      newVol == Max(0, Min(PerCent, deck.volume + volChange))
  IN  /\ deck' = [setVolume(deck, newVol) EXCEPT !.volReq = newVol,
                                                  !.volBy = "swipe"]
      /\ UNCHANGED <<lifeVars, schedVars, toolVars, failureNotice,
                     unhandled, codec, uplink>>

NextVol ==
  \/ \E v \in VolumeRequests : handleVolume(v)
  \/ \E level \in VolumeRequests : ToolSetVolume(level)
  \/ \E up \in BOOLEAN : VolumeSwipe(up)

SpecVol == Init /\ [][NextVol]_vars

\* ------------------------------------------------------------ deck claims

\* C8: the retry counter of App starts at 0, counts the failures reported
\* in a row since the last playback start (0, 1, 2), is 0 again after a
\* playback start, never exceeds 2, and the third failure in a row gives the
\* track up (counter back to 0, next-track timer armed) instead of retrying.
C8_RetryCounterProtocol ==
  /\ deck.retryCountRef \in 0..2
  /\ deck.last \in {"none", "play"} =>
       deck.retryCountRef = 0 /\ deck.fails = 0
  /\ deck.last = "retry" =>
       deck.fails \in 1..2 /\ deck.retryCountRef = deck.fails
  /\ deck.last = "skip" => deck.fails = 3 /\ deck.retryCountRef = 0

\* two failures were retried and the third one gave the track up
C8_Witness ==
  /\ deck.last = "skip" /\ deck.fails = 3
  /\ deck.nextTimers # <<>>

\* C9: after a play request for a network source (anonymous policy), the
\* first media error makes the engine reload once with cross-origin disabled
\* and the restricted flag set, surfacing nothing; a second media error is
\* passed to onError and starts no further attempt of the engine.
C9_SingleCorsRetry ==
  deck.req = "net" =>
    /\ deck.auto <= 1 /\ deck.errs <= 2
    /\ deck.errs = 0 => deck.auto = 0 /\ deck.surf = 0
    /\ deck.errs = 1 =>
         /\ deck.auto = 1 /\ deck.surf = 0
         /\ deck.crossOrigin = "null" /\ deck.isCorsRestricted
         /\ deck.src = Playlist[1]
    /\ deck.errs = 2 => deck.auto = 1 /\ deck.surf = 1 /\ deck.elem = "failed"

\* the retry of a network source failed as well and was passed to onError
C9_Witness ==
  /\ deck.req = "net" /\ deck.errs = 2
  /\ deck.auto = 1 /\ deck.surf = 1

\* C10 as stated: once set, the restricted flag is never cleared again.
C10_FlagNeverCleared ==
  [][deck.isCorsRestricted => deck'.isCorsRestricted]_vars

\* C10: the restricted flag, once set, stays set until the next play request
\* for a network source, which clears it; it is set by the recovery of the
\* error handler and by init() when connecting the analyser throws. No play
\* of a local file, togglePlay, reload or recovery clears it.
C10_FlagClearedOnlyByNetworkPlay ==
  [][/\ (deck.isCorsRestricted /\ ~deck'.isCorsRestricted) =>
          /\ deck'.req = "net" /\ deck'.errs = 0
          /\ deck'.crossOrigin = "anonymous"
     /\ (~deck.isCorsRestricted /\ deck'.isCorsRestricted) =>
          \/ deck'.auto = deck.auto + 1
          \/ ~deck'.source]_vars

\* the flag set by the recovery is still set after a local file was played
C10_Witness ==
  /\ deck.isCorsRestricted /\ deck.source
  /\ deck.req = "blob" /\ deck.elem = "ready"

\* ---------------------------------------------------------------- C11
\* C11: a change of listening mode while a session is connected leaves the
\* session alone: as long as the agent stays active, no teardown runs for a
\* connected session whose mode differs from the mode it was activated with.
C11_ModeChangeKeepsSession ==
  [][(isActive /\ depActive /\ status = "connected" /\ mode # depMode) =>
       (phase' = phase /\ mounted' = mounted /\ closeReq' = closeReq)]_vars

\* ---------------------------------------------------------------- C12
\* C12: after teardown (the effect has run with the agent inactive) the
\* active buffer set is empty, the accumulator nextStartTimeRef is 0 and the
\* status is idle.
C12_TeardownResetsScheduler ==
  (~isActive /\ ~depActive /\ phase = "idle" /\ cur > 1) =>
    (audioQueueRef = {} /\ nextStartTimeRef = 0 /\ status = "idle")

\* ------------------------------------------------- failures of a session
\* the session lifecycle with the scheduling the runtime guarantees: an
\* armed timer fires, and React runs the effect body right after the
\* cleanup of the previous run
NextErr ==
  \/ UserToggleVoice(MaxInstTool)
  \/ UserToggleMode(MaxInstTool)
  \/ EffectCleanup(MaxInstTool)
  \/ EffectBody
  \/ \E k \in Inst, s \in BOOLEAN : MicResolved(k, s)
  \/ \E k \in Inst : ResumeResolved(k)
  \/ \E k \in Inst : SetupFailed(k)
  \/ \E k \in Inst : RemoteOpen(k)
  \/ \E k \in Inst : RemoteError(k)
  \/ \E k \in Inst : RemoteClose(k)
  \/ \E k \in Inst : SessionClose(k)
  \/ TimerFire

SpecErr ==
  Init /\ [][NextErr]_vars /\ WF_vars(TimerFire) /\ WF_vars(EffectBody)

\* ---------------------------------------------------------------- C13
\* C13: when the remote session of the mounted effect reports an error, the
\* status becomes error, the caller is handed "Connection Error" and one
\* deactivation timer is armed; a timer only goes away by firing, which
\* calls onDeactivate; so while the timer is pending the agent is bound to
\* become inactive.
C13_RemoteErrorDeactivates ==
  /\ [][\A k \in Inst :
          (sess[k] \in {"handshake", "open"} /\ sess'[k] = "errored"
             /\ mounted[k]) =>
            /\ status' = "error"
            /\ failureNotice' = "Connection Error"
            /\ timers' = timers + 1]_vars
  /\ [][timers' < timers => (timers' = timers - 1 /\ ~isActive')]_vars
  /\ ((timers > 0 /\ failureNotice = "Connection Error") ~> ~isActive)

\* a connected session has reported an error: the timer is pending and the
\* agent is still active
C13_Witness ==
  /\ isActive /\ status = "error" /\ timers > 0
  /\ failureNotice = "Connection Error"
  /\ \E k \in Inst : sess[k] = "errored" /\ mounted[k] /\ proc[k] = "live"

\* ---------------------------------------------------------------- C14
NothingAcquired ==
  /\ status = "idle" /\ ~isConnectingRef
  /\ sessionRef = 0 /\ streamRef = 0 /\ processorRef = 0
  /\ inputContextRef = 0 /\ outputContextRef = 0
  /\ \A k \in Inst : /\ pc[k] = "none" /\ stream[k] = "none"
                     /\ inCtx[k] = "none" /\ outCtx[k] = "none"
                     /\ proc[k] = "none" /\ sess[k] = "none"

\* C14: with no credential configured an activation hands the caller
\* "Error: No API Key", calls onDeactivate and does nothing else: the status
\* stays idle, the in-flight guard is not taken and no stream, context or
\* remote session is ever acquired.
C14_NoCredentialNoSideEffects ==
  /\ [](~apiKey => NothingAcquired)
  /\ [](~apiKey /\ depActive => failureNotice = "Error: No API Key")
  /\ [][(~apiKey /\ phase = "body" /\ isActive) =>
          (~isActive' /\ failureNotice' = "Error: No API Key")]_vars

\* an activation ran without a credential and was turned down
C14_Witness ==
  /\ ~apiKey /\ depActive /\ ~isActive /\ phase = "idle"
  /\ failureNotice = "Error: No API Key" /\ mounted[cur]

\* ---------------------------------------------------------------- C15
\* the tool-call loop of one activation, with handlers that succeed, resolve
\* with an empty result, or fail
NextResp ==
  \/ UserToggleVoice(MaxInstResp)
  \/ EffectCleanup(MaxInstResp)
  \/ EffectBody
  \/ \E k \in Inst : MicResolved(k, FALSE)
  \/ \E k \in Inst : RemoteOpen(k)
  \/ \E k \in Inst, c \in ToolMsgs : OnMessage(k, 0, FALSE, c)
  \/ \E m \in 1..MaxToolMsgs, o \in {"ok", "empty", "fail"} :
       HandlerSettled(m, o)

SpecResp == Init /\ [][NextResp]_vars

\* C15: every call whose handler completed has exactly one response, which
\* carries the call's id and name and the handler's result, or "done" when
\* the result is empty; a call whose handler failed has none; settling a
\* handler, failed or not, leaves the session and the status as they are.
C15_OneResponsePerCompletedCall ==
  /\ [](\A m \in 1..Len(tasks) :
          LET t == tasks[m] IN
          \A i \in 1..Len(t.res) :
            LET sentFor == {j \in 1..Len(t.out) : t.out[j].id = i} IN
            IF t.res[i] = "fail" THEN sentFor = {}
            ELSE /\ Cardinality(sentFor) = 1
                 /\ \A j \in sentFor :
                      /\ t.out[j].name = t.calls[i].name
                      /\ t.out[j].result =
                           IF t.res[i] = "empty" THEN "done"
                           ELSE HandlerResult(t.calls[i])
                      /\ t.out[j].result # "")
  /\ [][(Len(tasks') = Len(tasks) /\ tasks' # tasks) =>
          UNCHANGED <<sess, status, sessionRef, isActive>>]_vars

\* one message whose three handlers ended in an empty result, a failure
\* and a result
C15_Witness ==
  \E m \in 1..Len(tasks) :
    /\ tasks[m].res = <<"empty", "fail", "ok">>
    /\ Len(tasks[m].out) = 2
    /\ tasks[m].out[1].result = "done"
    /\ status = "connected"

\* ---------------------------------------------------------------- C16
\* C16: when getUserMedia or a resume rejects, or the handshake of the
\* remote session fails, while the effect is mounted, the status becomes
\* error, the caller is handed a failure text and one deactivation timer is
\* armed; a failed setup releases the in-flight guard and never opens a
\* session; while the timer is pending the agent is bound to become inactive.
C16_SetupFailureAborts ==
  /\ [][\A k \in Inst :
          /\ (pc[k] \in {"mic", "resume"} /\ pc'[k] = "done"
                /\ sess'[k] = "none" /\ mounted[k]) =>
               /\ status' = "error" /\ failureNotice' = "Network Error"
               /\ timers' = timers + 1 /\ ~isConnectingRef'
          /\ (sess[k] = "handshake" /\ sess'[k] = "errored" /\ mounted[k]) =>
               /\ status' = "error" /\ failureNotice' = "Connection Error"
               /\ timers' = timers + 1
          /\ (pc[k] = "done" /\ sess[k] = "none") => sess'[k] = "none"]_vars
  /\ ((timers > 0 /\ failureNotice = "Network Error") ~> ~isActive)

\* the microphone was refused while the agent was active
C16_Witness ==
  /\ isActive /\ status = "error" /\ timers > 0
  /\ failureNotice = "Network Error"
  /\ \E k \in Inst : pc[k] = "done" /\ sess[k] = "none" /\ mounted[k]

\* ---------------------------------------------------------------- C17
\* line 70: new Int16Array(data.buffer) throws a RangeError when the byte
\* length of the payload is odd
DecodeThrows(byteLength) == byteLength % 2 # 0

\* onmessage (lines 252-297) for a message whose speech payload makes
\* decodeAudioData throw: the await of line 263 rethrows inside the async
\* callback, which ends there; lines 265-296 do not run for this message
OnMessageMalformed(k, byteLength, interrupted, calls) ==
  /\ phase = "idle" /\ sess[k] = "open"
  /\ mounted[k]                                      \* line 253
  /\ outputContextRef # 0                            \* line 260
  /\ DecodeThrows(byteLength)
  /\ unhandled < MaxUnhandled
  /\ unhandled' = unhandled + 1
  /\ UNCHANGED <<lifeVars, schedVars, toolVars, deck, failureNotice, codec, uplink>>

\* one activation receiving well-formed and misaligned messages
NextMsg ==
  \/ UserToggleVoice(MaxInstResp)
  \/ EffectCleanup(MaxInstResp)
  \/ EffectBody
  \/ \E k \in Inst : MicResolved(k, FALSE)
  \/ \E k \in Inst : RemoteOpen(k)
  \/ \E k \in Inst, d \in 0..MaxDur, i \in BOOLEAN : OnMessage(k, d, i, <<>>)
  \/ \E k \in Inst, c \in ToolMsgs : OnMessage(k, 0, FALSE, c)
  \/ \E k \in Inst, n \in 1..MaxBytes, i \in BOOLEAN,
        c \in ToolMsgs \cup {<<>>} : OnMessageMalformed(k, n, i, c)
  \/ \E m \in 1..MaxToolMsgs, o \in {"ok", "fail"} : HandlerSettled(m, o)

SpecMsg == Init /\ [][NextMsg]_vars

\* C17: a speech payload of misaligned length fails only its decode: nothing
\* is enqueued for it and the session stays connected, and the rest of the
\* message is still handled: its interruption signal flushes the scheduler
\* and its tool calls reach the tool-call loop.
C17_MalformedFrameFailsOnlyDecode ==
  [][\A k \in Inst, n \in 1..MaxBytes, i \in BOOLEAN,
        c \in ToolMsgs \cup {<<>>} :
       OnMessageMalformed(k, n, i, c) =>
         /\ audioQueueRef' \subseteq audioQueueRef
         /\ sess' = sess /\ status' = status
         /\ i => (audioQueueRef' = {} /\ nextStartTimeRef' = 0)
         /\ c # <<>> => Len(tasks') = Len(tasks) + 1]_vars

\* ------------------------------------------------------------- the codec
\* A sample is kept as its numerator n over Den: the sample value is n/Den,
\* so the samples of [-1, 1] are -Den..Den and one quantisation step of
\* 1/32768 is SampleGrid numerators wide.
FullScale == 32768
Den == SampleGrid * FullScale

Samples ==
  ((-Den)..(-Den + MaxNear)) \cup ((-MaxNear)..MaxNear)
    \cup ((Den - MaxNear)..Den) \cup {-(Den \div 3), Den \div 3}

Blocks == UNION {[1..n -> Samples] : n \in 1..MaxVec}

\* the conversion of a Number stored into an Int16Array (line 57): the
\* fraction is dropped towards zero and the integer wraps modulo 2^16
Trunc(n, g) == IF n >= 0 THEN n \div g ELSE -((-n) \div g)
ToInt16(v) == ((v + 32768) % 65536) - 32768

\* line 57: int16[i] = data[i] * 32768
Quantize(n) == ToInt16(Trunc(n, SampleGrid))

\* new Uint8Array(int16.buffer) (line 58): two bytes per sample, low first
BytesOf(ints) ==
  [j \in 1..(2 * Len(ints)) |->
     LET u == ints[(j + 1) \div 2] % 65536
     IN  IF j % 2 = 1 THEN u % 256 ELSE u \div 256]

\* btoa of line 51 as the sequence of 6-bit digits, 64 standing for '='
RECURSIVE Btoa(_)
Btoa(bs) ==
  IF bs = <<>> THEN <<>>
  ELSE IF Len(bs) = 1
  THEN <<bs[1] \div 4, (bs[1] % 4) * 16, 64, 64>>
  ELSE IF Len(bs) = 2
  THEN <<bs[1] \div 4, (bs[1] % 4) * 16 + bs[2] \div 16,
         (bs[2] % 16) * 4, 64>>
  ELSE <<bs[1] \div 4, (bs[1] % 4) * 16 + bs[2] \div 16,
         (bs[2] % 16) * 4 + bs[3] \div 64, bs[3] % 64>>
       \o Btoa(SubSeq(bs, 4, Len(bs)))

\* atob of line 62
RECURSIVE Atob(_)
Atob(ds) ==
  IF ds = <<>> THEN <<>>
  ELSE LET b1 == ds[1] * 4 + ds[2] \div 16
           b2 == (ds[2] % 16) * 16 + ds[3] \div 4
           b3 == (ds[3] % 4) * 64 + ds[4]
           rest == Atob(SubSeq(ds, 5, Len(ds)))
       IN  IF ds[3] = 64 THEN <<b1>>
           ELSE IF ds[4] = 64 THEN <<b1, b2>>
           ELSE <<b1, b2, b3>> \o rest

\* encode (lines 47-52) and decode (lines 61-67)
encode(bytes) == Btoa(bytes)
decode(base64) == Atob(base64)

\* createBlob (lines 54-59): the data field of the packet; its mimeType
\* field is the constant of line 58, set by Capture
createBlob(data) ==
  encode(BytesOf([i \in 1..Len(data) |-> Quantize(data[i])]))

\* decodeAudioData (lines 69-80) for one channel: the bytes are read as
\* signed 16-bit integers, low byte first, and divided by 32768
decodeAudioData(bytes) ==
  [i \in 1..(Len(bytes) \div 2) |->
     LET u == bytes[2 * i - 1] + 256 * bytes[2 * i]
         v == IF u >= 32768 THEN u - 65536 ELSE u
     IN  v * SampleGrid]

\* onaudioprocess (lines 241-246): a captured block is packed by createBlob
Capture(data) ==
  /\ codec' = [stage |-> "sent", input |-> data, wire |-> createBlob(data),
               mimeType |-> "audio/pcm;rate=16000", output |-> <<>>]
  /\ UNCHANGED <<lifeVars, schedVars, toolVars, deck, failureNotice, unhandled,
                 uplink>>

\* the packet is decoded the way an inbound payload is (lines 262-263)
Loopback ==
  /\ codec.stage = "sent"
  /\ ~DecodeThrows(Len(decode(codec.wire)))
  /\ codec' = [codec EXCEPT !.stage = "decoded",
                            !.output = decodeAudioData(decode(codec.wire))]
  /\ UNCHANGED <<lifeVars, schedVars, toolVars, deck, failureNotice, unhandled,
                 uplink>>

NextCodec ==
  \/ \E data \in Blocks : Capture(data)
  \/ Loopback

SpecCodec == Init /\ [][NextCodec]_vars

\* ---------------------------------------------------------------- C18
Abs(x) == IF x >= 0 THEN x ELSE -x

\* C18: a block of samples of [-1, 1], the full-scale values -1 and +1
\* included, encoded by createBlob and decoded by decode and decodeAudioData
\* comes back with as many samples, each within 1/32768 of the original.
C18_RoundTripWithinQuantum ==
  codec.stage = "decoded" =>
    /\ Len(codec.output) = Len(codec.input)
    /\ \A i \in 1..Len(codec.input) :
         Abs(codec.output[i] - codec.input[i]) <= SampleGrid

\* ---------------------------------------------------------------- C19
\* C19: after setVolume(v) the deck volume is v clamped to [0, 1]: 0 for a
\* v below 0, 1 for a v above 1 and v itself inside the range; the same holds
\* when the request comes from the set_volume tool, which passes level/100.
C19_VolumeClamped ==
  deck.volBy # "none" =>
    /\ deck.volReq < 0 => deck.volume = 0
    /\ deck.volReq > PerCent => deck.volume = PerCent
    /\ deck.volReq \in 0..PerCent => deck.volume = deck.volReq

C19_Witness ==
  /\ deck.volBy = "tool"
  /\ deck.volReq > PerCent
  /\ deck.volume = PerCent

\* ---------------------------------------------------------------- C20
\* C20: each enqueue starts the buffer at exactly the larger of the output
\* clock and the planned end it found, and moves the planned end to that
\* start plus the duration of the buffer; a fragment that arrives while the
\* planned end lies in the future starts exactly at that end, with no gap.
\* (A message that also signals an interruption flushes after its enqueue.)
C20_EnqueueAtMaxOfClockAndPlannedEnd ==
  [][\A k \in Inst, d \in 1..MaxDur, i \in BOOLEAN :
       (OnMessage(k, d, i, <<>>) /\ outputContextRef # 0) =>
         LET t  == clock[outputContextRef]
             st == IF t >= nextStartTimeRef THEN t ELSE nextStartTimeRef
             b  == [ctx |-> outputContextRef, start |-> st, end |-> st + d]
         IN  /\ hist'.start = st
             /\ hist'.end = st + d
             /\ nextStartTimeRef > t => hist'.start = nextStartTimeRef
             /\ ~i => /\ nextStartTimeRef' = st + d
                      /\ audioQueueRef' = audioQueueRef \cup {b}]_vars

\* a fragment scheduled while the planned end of the one before it was still
\* ahead of the clock, started exactly at that end
C20_Witness ==
  /\ hist.prevEnd > 0 /\ ~hist.between
  /\ hist.start = hist.prevEnd
  /\ outputContextRef # 0 /\ clock[outputContextRef] < hist.prevEnd
  /\ \E b \in audioQueueRef : b.start = hist.start /\ b.end = hist.end

\* ---------------------------------------------------------------- C21
\* C21: once a message carrying the interruption signal has been handled,
\* the active set holds no buffer of a fragment that arrived before or in
\* that message, and it stays so until the next fragment is scheduled; the
\* playback status the caller received last is "Listening...".
C21_InterruptionFlushesAll ==
  hist.after =>
    /\ audioQueueRef = {}
    /\ hist.said = "Listening..."

\* a message that carried a fragment and the signal, handled while the
\* fragment scheduled before it had not been played to its end
C21_Witness ==
  /\ hist.after /\ hist.inst # 0 /\ hist.prevEnd # -1 /\ ~hist.between
  /\ outputContextRef = hist.inst
  /\ clock[outputContextRef] < hist.prevEnd
  /\ hist.said = "Listening..."

\* ---------------------------------------------------------------- C22
StatusMoves ==
  {<<"idle", "connecting">>, <<"connecting", "connected">>,
   <<"connecting", "error">>, <<"connecting", "idle">>,
   <<"connected", "error">>, <<"connected", "idle">>, <<"error", "idle">>}

\* C22: the status moves only along idle -> connecting -> connected ->
\* idle or error, and from error or connecting back to idle; it becomes
\* "connected" only directly from "connecting", and only through the open
\* callback of a session that is in its handshake and has not been closed,
\* has not reported an error and has not been torn down.
C22_StatusOrdered ==
  [][/\ status' # status => <<status, status'>> \in StatusMoves
     /\ (status' = "connected" /\ status # "connected") =>
          /\ status = "connecting"
          /\ \E k \in Inst : /\ mounted[k] /\ closeReq[k] = 0
                             /\ sess[k] = "handshake" /\ sess'[k] = "open"]_vars

\* a session connected after an earlier one of the same agent was closed or
\* had failed
C22_Witness ==
  /\ status = "connected"
  /\ \E k \in Inst : sess[k] \in {"closed", "errored"}
  /\ \E j \in Inst : sess[j] = "open" /\ mounted[j]

\* ---------------------------------------------------------------- C23
\* the 16-bit integers a packet carries
PacketInts(wire) ==
  LET out == decodeAudioData(decode(wire))
  IN  [i \in 1..Len(out) |-> Trunc(out[i], SampleGrid)]

\* round(n/Den * 32767), halves away from zero, clamped to the int16 range.
\* With |n| = a * SampleGrid + b the product is a + y/Den for
\* y = b * FullScale - |n|, which keeps the arithmetic within 32 bits.
RoundClamp(n) ==
  LET a == Abs(n) \div SampleGrid
      y == (Abs(n) % SampleGrid) * FullScale - Abs(n)
      r == a + ((2 * y + Den) \div (2 * Den))
      v == IF n >= 0 THEN r ELSE -r
  IN  Max(-32768, Min(32767, v))

\* C23: createBlob turns each sample of [-1, 1] into round(sample * 32767)
\* clamped to the int16 range, so +1.0 becomes the largest positive value
\* and never a negative one; the packet is tagged audio/pcm;rate=16000.
C23_RoundedAndClamped ==
  codec.stage # "idle" =>
    /\ codec.mimeType = "audio/pcm;rate=16000"
    /\ Len(PacketInts(codec.wire)) = Len(codec.input)
    /\ \A i \in 1..Len(codec.input) :
         /\ PacketInts(codec.wire)[i] = RoundClamp(codec.input[i])
         /\ codec.input[i] = Den => PacketInts(codec.wire)[i] = 32767

\* ---------------------------------------------------------------- C25
\* C25: an activation that was torn down by a deactivation while it awaited
\* the microphone or the resume of an audio path acquires nothing
\* afterwards: it stores no capture stream, creates no audio context and
\* opens no remote session.
C25_TornDownActivationAcquiresNothing ==
  [][\A k \in Inst :
       (~isActive /\ ~depActive /\ ~mounted[k] /\ pc[k] \in {"mic", "resume"}) =>
          /\ stream'[k] = stream[k]
          /\ inCtx'[k] = inCtx[k] /\ outCtx'[k] = outCtx[k]
          /\ sess'[k] = sess[k]
          /\ streamRef' = k => streamRef = k
          /\ inputContextRef' = k => inputContextRef = k
          /\ outputContextRef' = k => outputContextRef = k
          /\ sessionRef' = k => sessionRef = k]_vars

\* ---------------------------------------------------------------- C26
\* C26: once the session of a message has been torn down, no further call
\* of that message is handed to onToolCall and no response is issued for
\* it, also when the teardown ran while an earlier call of the message was
\* awaiting its handler.
C26_NoToolWorkAfterTeardown ==
  [][\A m \in 1..Len(tasks) :
       ~mounted[tasks[m].inst] =>
         /\ tasks'[m].sent = tasks[m].sent
         /\ tasks'[m].out = tasks[m].out]_vars

\* ------------------------------------------- activations without mode change
\* the lifecycle with the mode left alone: every teardown follows a change
\* of isActive
NextStale ==
  \/ UserToggleVoice(MaxInst)
  \/ EffectCleanup(MaxInst)
  \/ EffectBody
  \/ \E k \in Inst : MicResolved(k, FALSE)
  \/ \E k \in Inst : SetupFailed(k)
  \/ \E k \in Inst : RemoteOpen(k)
  \/ \E k \in Inst : RemoteError(k)
  \/ \E k \in Inst : RemoteClose(k)
  \/ \E k \in Inst : SessionClose(k)
  \/ TimerFire

SpecStale == Init /\ [][NextStale]_vars

\* ---------------------------------------------------------------- C27
\* C27: the auto-deactivation timer of a failed session deactivates only the
\* activation that failed: when it fires while the agent is active, the
\* failed session is still the current one (its error status is still
\* shown), never an activation the user started after the failed one was
\* deactivated.
C27_TimerSparesLaterActivation ==
  [][(timers' < timers /\ isActive) => status = "error"]_vars

\* ---------------------------------------------------------------- C28
\* C28: retries are counted per track: a track is given up only after it
\* was retried twice itself, whatever failures were recorded for the track
\* played before it.
C28_TwoRetriesPerTrack ==
  deck.gaveUpAfter # -1 => deck.gaveUpAfter >= 2

\* ---------------------------------------------------------------- C29
\* C29: a failed start is passed to onError at most once: when the media
\* error event of an attempt has been handled by the error handler, which
\* passed it on or answered it with the recovery reload, the rejection of
\* the play promise of that attempt is not passed to onError as well (no
\* retry is consumed, no track is given up for it).
C29_OneReportPerFailedStart ==
  [][deck'.stale < deck.stale =>
       /\ deck'.fails = deck.fails
       /\ deck'.retryCountRef = deck.retryCountRef
       /\ deck'.nextTimers = deck.nextTimers]_vars

\* ---------------------------------------------------------------- C30
\* C30: a control_playback tool call with the action 'pause' never starts
\* playback: handled on a deck that is already paused, it leaves the deck
\* paused, asks the element for no playback and fires no 'play' event.
C30_PauseNeverStarts ==
  [][((\E throws, allowed \in BOOLEAN : ToolPause(throws, allowed)) /\ deck.paused) =>
       /\ deck'.paused
       /\ deck'.pendingPlays = deck.pendingPlays
       /\ deck'.playEvt = deck.playEvt]_vars

\* ------------------------------------------------------------- the uplink
\* sessionPromise.then(session => session.sendRealtimeInput(...)) (lines
\* 244-246): the reactions registered on a pending promise run in the order
\* they were registered once it resolves
RunReactionsLastFirst(sent, reactions) ==
  sent \o [i \in 1..Len(reactions) |-> reactions[Len(reactions) + 1 - i]]

RunReactions(sent, reactions) == sent \o reactions

\* onaudioprocess (lines 241-247) delivers the next block of the processor
\* of instance k: dropped when the instance is torn down; sent in the
\* microtask that follows when the session promise has resolved; otherwise
\* its send reaction waits on the promise
CaptureBlock(k) ==
  /\ phase = "idle" /\ proc[k] = "live"
  /\ uplink[k].captured < MaxBlocks
  /\ LET u == uplink[k]
         n == u.captured + 1
     IN  uplink' = [uplink EXCEPT ![k] =
           IF ~mounted[k] THEN [u EXCEPT !.captured = n]
           ELSE IF u.resolved
           THEN [u EXCEPT !.captured = n,
                          !.sent = RunReactions(u.sent, <<n>>)]
           ELSE [u EXCEPT !.captured = n, !.early = @ + 1,
                          !.reactions = Append(@, n)]]
  /\ UNCHANGED <<lifeVars, schedVars, toolVars, deck, failureNotice, unhandled,
                 codec>>

\* the promise of ai.live.connect (lines 220-311) resolves with the opened
\* session: the waiting send reactions run
SessionResolved(k) ==
  /\ phase = "idle" /\ sess[k] = "open" /\ ~uplink[k].resolved
  /\ uplink' = [uplink EXCEPT ![k] =
       [@ EXCEPT !.resolved = TRUE,
                 !.sent = RunReactions(@, uplink[k].reactions),
                 !.reactions = <<>>]]
  /\ UNCHANGED <<lifeVars, schedVars, toolVars, deck, failureNotice, unhandled,
                 codec>>

NextUp ==
  \/ UserToggleVoice(MaxInstUp)
  \/ EffectCleanup(MaxInstUp)
  \/ EffectBody
  \/ \E k \in Inst : MicResolved(k, FALSE)
  \/ \E k \in Inst : RemoteOpen(k)
  \/ \E k \in Inst : SessionResolved(k)
  \/ \E k \in Inst : CaptureBlock(k)

SpecUp == Init /\ [][NextUp]_vars

\* ---------------------------------------------------------------- C24
\* C24: the capture blocks of a processor are passed to sendRealtimeInput in
\* the order they were captured, each at most once, also the blocks
\* captured before the session promise resolved; a step only appends to the
\* blocks sent.
C24_SentInCaptureOrder ==
  [][\A k \in Inst :
       /\ \A i, j \in 1..Len(uplink'[k].sent) :
            i < j => uplink'[k].sent[i] < uplink'[k].sent[j]
       /\ Len(uplink'[k].sent) >= Len(uplink[k].sent)
       /\ SubSeq(uplink'[k].sent, 1, Len(uplink[k].sent)) = uplink[k].sent]_vars

C24_Witness ==
  \E k \in Inst : /\ uplink[k].resolved
                  /\ uplink[k].early >= 2
                  /\ Len(uplink[k].sent) = MaxBlocks

====
